---- MODULE Spec2Model ----
(***************************************************************************)
(* Model of main.py: read_google_sheet (authenticate, open, fetch, print)  *)
(* followed by export_to_pdf (build the element list, doc.build).          *)
(* Strings are modelled as sequences of string tokens, so that f-string    *)
(* interpolation is sequence concatenation and a text can be inspected     *)
(* position by position.  A console line is one such token sequence.       *)
(***************************************************************************)
EXTENDS Integers, Sequences, FiniteSets, TLC

\* Largest number of data rows of the worksheet.
MaxRecords == 2

CREDENTIALS_FILE == "credentials.json"
SPREADSHEET_ID == "19o6daH5dkhwr1bCdKHEKcnH-EylgNJaFy-q76wyZMns"
WORKSHEET_NAME == "Sheet1"
DefaultFilename == "google_sheet_data.pdf"
\* Working directory of the process, the prefix os.path.abspath adds.
Cwd == "/app"

-----------------------------------------------------------------------------
(* Cell values: a string or an integer (gspread numericises cells).        *)
StrV(s) == [kind |-> "str", s |-> s, n |-> 0]
IntV(n) == [kind |-> "int", s |-> "", n |-> n]

\* Header names and cell values of the worksheets considered.  "<i>" is a
\* value with markup-significant characters (an unclosed tag).
Keys == {"name", "age"}
Values == {StrV("Ann"), IntV(30), StrV("<i>")}

\* Header rows: non-empty sequences of pairwise distinct keys.
Headers ==
  {h \in UNION {[1..n -> Keys] : n \in 1..Cardinality(Keys)} :
     \A a, b \in DOMAIN h : a # b => h[a] # h[b]}

RowsOf(h) == UNION {[1..m -> [1..Len(h) -> Values]] : m \in 0..MaxRecords}

Sheets == UNION {{[header |-> h, rows |-> r] : r \in RowsOf(h)} : h \in Headers}

\* worksheet.get_all_records(): one ordered mapping per data row, keys from
\* the header row in column order.  A mapping is a sequence of <<key, value>>.
GetAllRecords(sh) ==
  [k \in 1..Len(sh.rows) |->
     [j \in 1..Len(sh.header) |-> <<sh.header[j], sh.rows[k][j]>>]]

\* str(value) as an f-string replacement field formats it.
Format(v) == IF v.kind = "int" THEN ToString(v.n) ELSE v.s

-----------------------------------------------------------------------------
(* reportlab flowables.                                                    *)
Paragraph(text, style) == [type |-> "Paragraph", text |-> text, style |-> style, h |-> 0]
Spacer(w, h) == [type |-> "Spacer", text |-> <<>>, style |-> "", h |-> h]

OpenTags == {"<b>", "<i>"}
CloseOf(t) == IF t = "<b>" THEN "</b>" ELSE "</i>"
CloseTags == {"</b>", "</i>"}

\* Paragraph() parses its markup on construction and raises ValueError when
\* the tags are not balanced.
RECURSIVE Balanced(_, _)
Balanced(text, stack) ==
  IF text = <<>> THEN stack = <<>>
  ELSE LET t == Head(text) IN
       IF t \in OpenTags THEN Balanced(Tail(text), <<CloseOf(t)>> \o stack)
       ELSE IF t \in CloseTags
            THEN /\ stack # <<>>
                 /\ Head(stack) = t
                 /\ Balanced(Tail(text), Tail(stack))
            ELSE Balanced(Tail(text), stack)

MarkupOK(text) == Balanced(text, <<>>)

TitleText == <<"Google Sheet Data Report">>
NoDataText == <<"No data found to export.">>

\* f"<b>Record {i+1}:</b>" for the 0-based enumerate index i.
LabelTextZeroBased(i) == <<"<b>", "Record ", ToString(i), ":", "</b>">>
LabelText(i) == <<"<b>", "Record ", ToString(i + 1), ":", "</b>">>

\* f"<b>{key}:</b> {value}<br/>"
FieldEntry(key, value) == <<"<b>", key, ":", "</b>", " ", Format(value), "<br/>">>

\* The inner loop over record.items(): record_text += entry, in key order.
RECURSIVE RecordTextReversed(_)
RecordTextReversed(record) ==
  IF record = <<>> THEN <<>>
  ELSE RecordTextReversed(Tail(record)) \o FieldEntry(Head(record)[1], Head(record)[2])

RECURSIVE RecordText(_)
RecordText(record) ==
  IF record = <<>> THEN <<>>
  ELSE FieldEntry(Head(record)[1], Head(record)[2]) \o RecordText(Tail(record))

\* `if not data`
IsEmptyNever(d) == FALSE
IsEmpty(d) == Len(d) = 0

\* The four elements one loop iteration appends.
RecordBlocksNoSpacing(i, record) ==
  << Paragraph(LabelText(i), "Normal"),
     Paragraph(RecordText(record), "DataStyle") >>
RecordBlocks(i, record) ==
  << Paragraph(LabelText(i), "Normal"),
     Spacer(1, 6),
     Paragraph(RecordText(record), "DataStyle"),
     Spacer(1, 12) >>

\* The two elements appended before the data is looked at.
TitleBlocks == << Paragraph(TitleText, "TitleStyle"), Spacer(1, 12) >>

\* os.path.abspath(filename) for a relative filename.
Abspath(filename) == <<Cwd, "/", filename>>

\* The artifact doc.build leaves at the destination on success.
NoFile == [state |-> "absent", content |-> <<>>]
PartialFile == [state |-> "partial", content |-> <<>>]
WriteFileAppending(old, els) == [state |-> "complete", content |-> old.content \o els]
WriteFile(old, els) == [state |-> "complete", content |-> els]

-----------------------------------------------------------------------------
(* json.dumps(row, indent=2), printed once per fetched record.             *)
JsonValue(v) == IF v.kind = "int" THEN <<ToString(v.n)>> ELSE <<"\"", v.s, "\"">>

RECURSIVE JsonItems(_)
JsonItems(record) ==
  IF record = <<>> THEN <<>>
  ELSE <<"\n  ", "\"", Head(record)[1], "\"", ": ">> \o JsonValue(Head(record)[2])
       \o (IF Len(record) > 1 THEN <<",">> ELSE <<>>) \o JsonItems(Tail(record))

JsonDumps(record) == <<"{">> \o JsonItems(record) \o <<"\n", "}">>

-----------------------------------------------------------------------------
(* Exceptions.                                                             *)
NoExc == [cls |-> "None", at |-> "None"]
Raised(cls, at) == [cls |-> cls, at |-> at]

\* The external calls of one run, in program order.
CallOrder ==
  << "from_service_account_file", "authorize", "open_by_key", "worksheet",
     "get_all_records", "build" >>

\* Exception classes an external call can raise.
Raises(call) ==
  CASE call = "from_service_account_file" -> {"FileNotFoundError", "MalformedError"}
    [] call = "authorize" -> {"RefreshError"}
    [] call = "open_by_key" -> {"SpreadsheetNotFound", "RefreshError", "ConnectionError"}
    [] call = "worksheet" -> {"WorksheetNotFound", "ConnectionError"}
    [] call = "get_all_records" -> {"ConnectionError"}
    [] call = "build" -> {"PermissionError"}
    [] OTHER -> {}

\* Class hierarchy: the classes an instance of cls is an instance of.
Bases(cls) ==
  CASE cls = "FileNotFoundError" -> {"FileNotFoundError", "OSError", "Exception"}
    [] cls = "PermissionError" -> {"PermissionError", "OSError", "Exception"}
    [] cls = "MalformedError" -> {"MalformedError", "ValueError", "Exception"}
    [] cls = "ValueError" -> {"ValueError", "Exception"}
    [] cls = "RefreshError" -> {"RefreshError", "GoogleAuthError", "Exception"}
    [] cls = "SpreadsheetNotFound" -> {"SpreadsheetNotFound", "GSpreadException", "Exception"}
    [] cls = "WorksheetNotFound" -> {"WorksheetNotFound", "GSpreadException", "Exception"}
    [] cls = "ConnectionError" -> {"ConnectionError", "RequestException", "OSError", "Exception"}
    [] OTHER -> {"Exception"}

\* str(e)
ExcText(cls) ==
  CASE cls = "FileNotFoundError" -> "[Errno 2] No such file or directory: 'credentials.json'"
    [] cls = "PermissionError" -> "[Errno 13] Permission denied: 'google_sheet_data.pdf'"
    [] cls = "MalformedError" -> "Service account info was not in the expected format"
    [] cls = "ValueError" -> "Parse error: saw </para> instead of expected </i>"
    [] cls = "RefreshError" -> "invalid_grant: Invalid JWT Signature."
    [] cls = "SpreadsheetNotFound" -> "<Response [404]>"
    [] cls = "WorksheetNotFound" -> "Sheet1"
    [] cls = "ConnectionError" -> "Max retries exceeded with url"
    [] OTHER -> ""

\* The except clauses of read_google_sheet, in source order.
ExceptClausesNoCatchAll == <<"SpreadsheetNotFound", "WorksheetNotFound", "FileNotFoundError">>
ExceptClauses ==
  <<"SpreadsheetNotFound", "WorksheetNotFound", "FileNotFoundError", "Exception">>

\* The first clause an exception of class cls matches, "uncaught" if none.
Clause(cls) ==
  LET m == {k \in DOMAIN ExceptClauses : ExceptClauses[k] \in Bases(cls)}
  IN  IF m = {} THEN "uncaught"
      ELSE ExceptClauses[CHOOSE k \in m : \A l \in m : k <= l]

\* The two lines a handler of read_google_sheet prints.
HandlerLinesNoDetail(clause, cls) ==
  CASE clause = "SpreadsheetNotFound" ->
         << <<"Error: Spreadsheet with ID '", SPREADSHEET_ID, "' not found.">>,
            <<"Please double-check the ID and ensure the service account has access.">> >>
    [] clause = "WorksheetNotFound" ->
         << <<"Error: Worksheet named '", WORKSHEET_NAME, "' not found.">>,
            <<"Please double-check the worksheet name.">> >>
    [] clause = "FileNotFoundError" ->
         << <<"Error: The 'credentials.json' file was not found.">>,
            <<"Please make sure it's in the same directory as the script.">> >>
    [] clause = "Exception" ->
         << <<"An unexpected error occurred.">>,
            <<"Please check your credentials.json file and internet connection.">> >>
    [] OTHER -> <<>>
HandlerLines(clause, cls) ==
  CASE clause = "SpreadsheetNotFound" ->
         << <<"Error: Spreadsheet with ID '", SPREADSHEET_ID, "' not found.">>,
            <<"Please double-check the ID and ensure the service account has access.">> >>
    [] clause = "WorksheetNotFound" ->
         << <<"Error: Worksheet named '", WORKSHEET_NAME, "' not found.">>,
            <<"Please double-check the worksheet name.">> >>
    [] clause = "FileNotFoundError" ->
         << <<"Error: The 'credentials.json' file was not found.">>,
            <<"Please make sure it's in the same directory as the script.">> >>
    [] clause = "Exception" ->
         << <<"An unexpected error occurred: ", ExcText(cls)>>,
            <<"Please check your credentials.json file and internet connection.">> >>
    [] OTHER -> <<>>

\* The lines of export_to_pdf's own handler and its success line.
PdfErrorLines(cls) ==
  << <<"An error occurred while creating the PDF: ", ExcText(cls)>>,
     <<"Please ensure your data is a list of dictionaries and reportlab is installed correctly.">> >>
SuccessLine(filename) ==
  <<"Successfully exported data to '">> \o Abspath(filename) \o <<"'">>

\* Where control goes when the external call `call` raises: the handlers of
\* the enclosing try.
RaiseToSwallowFetch(call) ==
  IF call = "build" THEN "export_except"
  ELSE IF call = "get_all_records" THEN "report" ELSE "except"
RaiseTo(call) == IF call = "build" THEN "export_except" ELSE "except"

\* Where control goes after export_to_pdf's handler ran: the function returns
\* normally to read_google_sheet, which has nothing left to do.
AfterPdfHandlerReraise == "except"
AfterPdfHandler == "done"

\* Where control goes after a handler of read_google_sheet ran.
AfterHandlerRetry == "load"
AfterHandler == "done"

-----------------------------------------------------------------------------
(* State.                                                                  *)
VARIABLES
  sheet,      \* the remote worksheet: header row and data rows
  file,       \* the artifact at the destination path
  pc,         \* position of the running process
  data,       \* read_google_sheet's `data`, export_to_pdf's parameter
  elements,   \* export_to_pdf's `elements`
  i,          \* the enumerate index of export_to_pdf's loop
  console,    \* the lines printed by the running process
  calls,      \* the external calls the running process has made, in order
  returned,   \* the external calls that returned normally
  exports,    \* how often export_to_pdf was entered by the running process
  handed,     \* whether doc.build was called, and the list it was given
  exc,        \* the last exception raised in the running process
  status,     \* "running", "exit0" (normal end) or "crashed" (traceback)
  prev        \* what the previous run of the program left behind

vars ==
  << sheet, file, pc, data, elements, i, console, calls, returned, exports,
     handed, exc, status, prev >>

NotHanded == [called |-> FALSE, arg |-> <<>>]
NoRun ==
  [ran |-> FALSE, console |-> <<>>, handed |-> NotHanded, exc |-> NoExc,
   file |-> NoFile, built |-> FALSE]

\* "build" returned normally in the running process
Built == "build" \in returned

Init ==
  /\ sheet \in Sheets
  /\ file = NoFile
  /\ pc = "load"
  /\ data = <<>>
  /\ elements = <<>>
  /\ i = 0
  /\ console = <<>>
  /\ calls = <<>>
  /\ returned = {}
  /\ exports = 0
  /\ handed = NotHanded
  /\ exc = NoExc
  /\ status = "running"
  /\ prev = NoRun

\* An external call raises an exception of one of its classes.
Fails(call) ==
  \E cls \in Raises(call) :
    /\ exc' = Raised(cls, call)
    /\ pc' = RaiseTo(call)

-----------------------------------------------------------------------------
(* read_google_sheet                                                       *)

\* creds = Credentials.from_service_account_file(CREDENTIALS_FILE, scopes=scope)
LoadCredentials ==
  /\ pc = "load"
  /\ calls' = Append(calls, "from_service_account_file")
  /\ \/ /\ pc' = "authorize"
        /\ returned' = returned \cup {"from_service_account_file"}
        /\ exc' = exc
     \/ /\ Fails("from_service_account_file")
        /\ returned' = returned
  /\ UNCHANGED <<sheet, file, data, elements, i, console, exports, handed, status, prev>>

\* gc = gspread.authorize(creds); print("Authentication successful!")
Authorize ==
  /\ pc = "authorize"
  /\ calls' = Append(calls, "authorize")
  /\ \/ /\ pc' = "open"
        /\ returned' = returned \cup {"authorize"}
        /\ console' = Append(console, <<"Authentication successful!">>)
        /\ exc' = exc
     \/ /\ Fails("authorize")
        /\ UNCHANGED <<returned, console>>
  /\ UNCHANGED <<sheet, file, data, elements, i, exports, handed, status, prev>>

\* sheet = gc.open_by_key(SPREADSHEET_ID)
OpenByKey ==
  /\ pc = "open"
  /\ calls' = Append(calls, "open_by_key")
  /\ \/ /\ pc' = "worksheet"
        /\ returned' = returned \cup {"open_by_key"}
        /\ exc' = exc
     \/ /\ Fails("open_by_key")
        /\ returned' = returned
  /\ UNCHANGED <<sheet, file, data, elements, i, console, exports, handed, status, prev>>

\* worksheet = sheet.worksheet(WORKSHEET_NAME); print("Reading data ...")
Worksheet ==
  /\ pc = "worksheet"
  /\ calls' = Append(calls, "worksheet")
  /\ \/ /\ pc' = "fetch"
        /\ returned' = returned \cup {"worksheet"}
        /\ console' = Append(console, <<"Reading data from worksheet '", WORKSHEET_NAME, "'...">>)
        /\ exc' = exc
     \/ /\ Fails("worksheet")
        /\ UNCHANGED <<returned, console>>
  /\ UNCHANGED <<sheet, file, data, elements, i, exports, handed, status, prev>>

\* data = worksheet.get_all_records()
Fetch ==
  /\ pc = "fetch"
  /\ calls' = Append(calls, "get_all_records")
  /\ \/ /\ pc' = "report"
        /\ returned' = returned \cup {"get_all_records"}
        /\ data' = GetAllRecords(sheet)
        /\ exc' = exc
     \/ /\ Fails("get_all_records")
        /\ UNCHANGED <<returned, data>>
  /\ UNCHANGED <<sheet, file, elements, i, console, exports, handed, status, prev>>

\* The lines of `for row in data: print(json.dumps(row, indent=2))`.
JsonLines(d) == [k \in 1..Len(d) |-> JsonDumps(d[k])]

\* if data: print the records  else: print("No data found in the worksheet.")
\* Both branches then call export_to_pdf(data).
Report ==
  /\ pc = "report"
  /\ console' =
       IF data # <<>>
       THEN console \o << <<"\nData found:">> >> \o JsonLines(data)
       ELSE Append(console, <<"No data found in the worksheet.">>)
  /\ pc' = "export"
  /\ UNCHANGED <<sheet, file, data, elements, i, calls, returned, exports, handed,
                 exc, status, prev>>

\* The handlers of read_google_sheet's try: the first matching clause prints
\* its two lines; an exception no clause matches leaves the function.
Except ==
  /\ pc = "except"
  /\ LET clause == Clause(exc.cls) IN
       IF clause = "uncaught"
       THEN /\ status' = "crashed"
            /\ pc' = "done"
            /\ console' = console
       ELSE /\ console' = console \o HandlerLines(clause, exc.cls)
            /\ pc' = AfterHandler
            /\ status' = IF AfterHandler = "done" THEN "exit0" ELSE status
  /\ UNCHANGED <<sheet, file, data, elements, i, calls, returned, exports, handed,
                 exc, prev>>

-----------------------------------------------------------------------------
(* export_to_pdf                                                           *)

\* doc = SimpleDocTemplate(...); elements = []; the title and its spacer;
\* `if not data` appends the "no data" paragraph.
ExportBegin ==
  /\ pc = "export"
  /\ exports' = exports + 1
  /\ i' = 0
  /\ IF IsEmpty(data)
     THEN /\ elements' = TitleBlocks \o <<Paragraph(NoDataText, "DataStyle")>>
          /\ pc' = "build"
     ELSE /\ elements' = TitleBlocks
          /\ pc' = "loop"
  /\ UNCHANGED <<sheet, file, data, console, calls, returned, handed, exc, status, prev>>

\* One iteration of `for i, record in enumerate(data)`.  Paragraph() raises
\* ValueError on markup it cannot parse.
ExportRecord ==
  /\ pc = "loop"
  /\ IF i < Len(data)
     THEN LET record == data[i + 1] IN
          IF MarkupOK(LabelText(i)) /\ MarkupOK(RecordText(record))
          THEN /\ elements' = elements \o RecordBlocks(i, record)
               /\ i' = i + 1
               /\ pc' = "loop"
               /\ exc' = exc
          ELSE /\ exc' = Raised("ValueError", "Paragraph")
               /\ pc' = "export_except"
               /\ UNCHANGED <<elements, i>>
     ELSE /\ pc' = "build"
          /\ UNCHANGED <<elements, i, exc>>
  /\ UNCHANGED <<sheet, file, data, console, calls, returned, exports, handed,
                 status, prev>>

\* doc.build(elements); print(f"Successfully exported data to ...").
\* A build that fails may leave the old file or a partial one.
Build ==
  /\ pc = "build"
  /\ calls' = Append(calls, "build")
  /\ handed' = [called |-> TRUE, arg |-> elements]
  /\ \/ /\ file' = WriteFile(file, elements)
        /\ returned' = returned \cup {"build"}
        /\ console' = Append(console, SuccessLine(DefaultFilename))
        /\ pc' = "done"
        /\ status' = "exit0"
        /\ exc' = exc
     \/ /\ Fails("build")
        /\ file' \in {file, PartialFile}
        /\ UNCHANGED <<returned, console, status>>
  /\ UNCHANGED <<sheet, data, elements, i, exports, prev>>

\* except Exception as e: the two lines of export_to_pdf's handler.
ExportExcept ==
  /\ pc = "export_except"
  /\ IF "Exception" \in Bases(exc.cls)
     THEN /\ console' = console \o PdfErrorLines(exc.cls)
          /\ pc' = AfterPdfHandler
          /\ status' = IF AfterPdfHandler = "done" THEN "exit0" ELSE status
     ELSE /\ pc' = "except"
          /\ UNCHANGED <<console, status>>
  /\ UNCHANGED <<sheet, file, data, elements, i, calls, returned, exports, handed,
                 exc, prev>>

-----------------------------------------------------------------------------
\* The program is run again against the same worksheet and destination.
Rerun ==
  /\ pc = "done"
  /\ prev' = [ran |-> TRUE, console |-> console, handed |-> handed, exc |-> exc,
              file |-> file, built |-> Built]
  /\ pc' = "load"
  /\ data' = <<>>
  /\ elements' = <<>>
  /\ i' = 0
  /\ console' = <<>>
  /\ calls' = <<>>
  /\ returned' = {}
  /\ exports' = 0
  /\ handed' = NotHanded
  /\ exc' = NoExc
  /\ status' = "running"
  /\ UNCHANGED <<sheet, file>>

Next ==
  \/ LoadCredentials
  \/ Authorize
  \/ OpenByKey
  \/ Worksheet
  \/ Fetch
  \/ Report
  \/ Except
  \/ ExportBegin
  \/ ExportRecord
  \/ Build
  \/ ExportExcept
  \/ Rerun

Spec == Init /\ [][Next]_vars

-----------------------------------------------------------------------------
(* Vocabulary of the properties.                                           *)

IsParagraph(e) == e.type = "Paragraph"
IsTitle(e) == e.type = "Paragraph" /\ e.style = "TitleStyle"
IsLabel(e) == e.type = "Paragraph" /\ e.style = "Normal"
IsData(e) == e.type = "Paragraph" /\ e.style = "DataStyle"
IsTag(t) == t \in OpenTags \cup CloseTags

\* What a paragraph shows once its bold/italic tags are interpreted.
Reads(text) == SelectSeq(text, LAMBDA t : ~IsTag(t))

\* Index in els of the k-th element satisfying the label test.
LabelPos(els, k) ==
  CHOOSE p \in DOMAIN els :
    /\ IsLabel(els[p])
    /\ Cardinality({q \in 1..p : IsLabel(els[q])}) = k

\* Index of the first paragraph after position p (0 if there is none).
NextParagraph(els, p) ==
  LET after == {q \in DOMAIN els : q > p /\ IsParagraph(els[q])}
  IN  IF after = {} THEN 0 ELSE CHOOSE q \in after : \A r \in after : q <= r

\* text is, entry by entry, the listing of record: 7 tokens per field, the
\* j-th group naming the j-th key and the j-th value.
ListsFieldsOf(text, record) ==
  /\ Len(text) = 7 * Len(record)
  /\ \A j \in 1..Len(record) :
       SubSeq(text, 7 * (j - 1) + 1, 7 * j) =
         <<"<b>", record[j][1], ":", "</b>", " ",
           (IF record[j][2].kind = "int" THEN ToString(record[j][2].n)
            ELSE record[j][2].s),
           "<br/>">>

FetchCalls ==
  {"from_service_account_file", "authorize", "open_by_key", "worksheet",
   "get_all_records"}

IsSuccessLine(l) == l[1] = "Successfully exported data to '"
IsPdfErrorLine(l) == l[1] = "An error occurred while creating the PDF: "
IsHandlerLine(l) ==
  l[1] \in {"Error: Spreadsheet with ID '", "Error: Worksheet named '",
            "Error: The 'credentials.json' file was not found.",
            "An unexpected error occurred: ", "An unexpected error occurred."}
CountLines(con, Test(_)) == Cardinality({k \in DOMAIN con : Test(con[k])})

\* The fault that was injected, read off the exception it surfaces as.
FaultKind(e) ==
  CASE e.cls \in {"FileNotFoundError", "MalformedError", "RefreshError"}
         /\ e.at \in FetchCalls -> "AuthenticationFailure"
    [] e.cls = "WorksheetNotFound" -> "ResourceNotFound"
    [] e.cls = "ConnectionError" -> "ConnectivityFailure"
    [] OTHER -> "other"

InjectedKinds == {"AuthenticationFailure", "ResourceNotFound", "ConnectivityFailure"}

\* The first line a handler printed: the message itself, without the hint.
ErrorMessage(con) == con[Len(con) - 1]

-----------------------------------------------------------------------------
\* C1: for a non-empty record set of n records, the list handed to doc.build
\* has exactly n label blocks, the k-th reads "Record k:" and is followed by
\* the field block of the k-th input record.
C1_LabelsInOrder ==
  (handed.called /\ data # <<>>) =>
    LET els == handed.arg
        labels == SelectSeq(els, IsLabel)
    IN  /\ Len(labels) = Len(data)
        /\ \A k \in 1..Len(labels) :
             /\ Reads(labels[k].text) = <<"Record ", ToString(k), ":">>
             /\ LET q == NextParagraph(els, LabelPos(els, k))
                IN  /\ q # 0
                    /\ IsData(els[q])
                    /\ ListsFieldsOf(els[q].text, data[k])
                    /\ \A m \in 1..Len(data) :
                         ListsFieldsOf(els[q].text, data[m]) => data[m] = data[k]

C1_Witness == handed.called /\ Len(data) >= 2 /\ data[1] # data[2]

\* C2: the field block built for a record lists the record's fields in key
\* order, each exactly once, and nothing of another record.
C2_FieldsInKeyOrder ==
  (data # <<>> /\ exports > 0) =>
    LET blocks == SelectSeq(elements, IsData)
    IN  /\ Len(blocks) = i
        /\ \A k \in 1..Len(blocks) : ListsFieldsOf(blocks[k].text, data[k])

C2_Witness ==
  /\ handed.called
  /\ Len(data) >= 2
  /\ Len(data[2]) >= 2
  /\ data[1] # data[2]
  /\ data[2][1][2] # data[2][2][2]

\* C3: for an empty record set the document is the title block, its spacing
\* and one "No data found to export." block, with no per-record block; a
\* fetch of zero records still reaches export_to_pdf.
C3_EmptyDocument ==
  /\ (handed.called /\ data = <<>>) =>
       /\ handed.arg = << Paragraph(<<"Google Sheet Data Report">>, "TitleStyle"),
                          Spacer(1, 12),
                          Paragraph(<<"No data found to export.">>, "DataStyle") >>
       /\ Len(SelectSeq(handed.arg, IsLabel)) = 0
       /\ Built => file.content = handed.arg
  /\ (pc = "done" /\ "get_all_records" \in returned /\ data = <<>>) =>
       exports = 1 /\ handed.called

C3_Witness == Built /\ data = <<>> /\ pc = "done"

C5_RenderAfterFetch ==
  /\ exports > 0 => FetchCalls \subseteq returned
  /\ exc.at \in FetchCalls =>
       /\ exports = 0
       /\ ~handed.called
       /\ "build" \notin {calls[k] : k \in DOMAIN calls}
       /\ file = prev.file

C5_Witness ==
  pc = "done" /\ exc.at = "get_all_records" /\ prev.built /\ file.state = "complete"

\* C6: a failure of any external call is caught and logged, the run ends
\* normally, and nothing escapes read_google_sheet.
C6_FailuresCaught ==
  /\ status # "crashed"
  /\ exc # NoExc => pc \in {"except", "export_except", "done"}
  /\ (pc = "done" /\ exc # NoExc) =>
       /\ status = "exit0"
       /\ Len(console) >= 2
       /\ IsHandlerLine(ErrorMessage(console)) \/ IsPdfErrorLine(ErrorMessage(console))

C6_Witness == pc = "done" /\ exc.at = "build" /\ status = "exit0"

C8_NoRetries ==
  /\ Len(calls) <= Len(CallOrder)
  /\ \A k \in DOMAIN calls : calls[k] = CallOrder[k]
  /\ (exc # NoExc /\ exc.at # "Paragraph") => calls[Len(calls)] = exc.at
  /\ exc.at = "Paragraph" => Len(calls) = 5

C8_Witness == pc = "done" /\ exc.at = "open_by_key" /\ Len(calls) = 3

\* C9: the title block is first and unique; for n records the list handed
\* to doc.build has 2 + 4n entries: title, spacing 12, then per record the
\* label, spacing 6, field block, spacing 12.
C9_BlockLayout ==
  /\ exports > 0 =>
       /\ elements[1] = Paragraph(<<"Google Sheet Data Report">>, "TitleStyle")
       /\ Len(SelectSeq(elements, IsTitle)) = 1
  /\ (handed.called /\ data # <<>>) =>
       LET els == handed.arg IN
         /\ Len(els) = 2 + 4 * Len(data)
         /\ els[2] = Spacer(1, 12)
         /\ \A k \in 1..Len(data) :
              /\ IsLabel(els[4 * k - 1])
              /\ Reads(els[4 * k - 1].text) = <<"Record ", ToString(k), ":">>
              /\ els[4 * k].type = "Spacer" /\ els[4 * k].h = 6
              /\ IsData(els[4 * k + 1])
              /\ ListsFieldsOf(els[4 * k + 1].text, data[k])
              /\ els[4 * k + 2].type = "Spacer" /\ els[4 * k + 2].h = 12

C9_Witness == handed.called /\ Len(data) >= 2 /\ Len(handed.arg) = 10

\* C10: a finished call of export_to_pdf printed exactly one of the success
\* line (with the absolute path) and the PDF error message; the success line
\* exactly when doc.build returned; a render failure is never reported by a
\* handler of read_google_sheet.
C10_OneOutcome ==
  LET nS == CountLines(console, IsSuccessLine)
      nE == CountLines(console, IsPdfErrorLine)
  IN  /\ nS + nE <= exports
      /\ nS = 1 <=> Built
      /\ (pc = "done" /\ exports > 0) =>
           /\ nS + nE = 1
           /\ nS = 1 =>
                console[Len(console)] =
                  <<"Successfully exported data to '", Cwd, "/", DefaultFilename, "'">>
           /\ CountLines(console, IsHandlerLine) = 0

C10_Witness == pc = "done" /\ exc.at \in {"build", "Paragraph"} /\ exports = 1

====
